---- MODULE Spec2Model ----
(***************************************************************************)
(* FS_Cockpit backend: the in-process cache (app/cache/memory_cache.py),   *)
(* the retrying outbound request (app/clients/base_cleint.py) and the      *)
(* per-client OAuth2 token caching (app/clients/intune_client.py,          *)
(* app/clients/nextthink_client.py).                                        *)
(***************************************************************************)
EXTENDS Integers, Sequences, FiniteSets, TLC

(***************************************************************************)
(* Bounds of the model.                                                     *)
(***************************************************************************)
MaxOps == 3
MaxClock == 1
MaxCap == 2
MaxFillOps == 22
MaxFillClock == 1
MaxPosts == 3
MaxClients == 2
MaxFetches == 2
MaxThreadOps == 3

\* A cache key is a string, modelled as the sequence of its characters.
Keys == { <<"s", "a">>, <<"s", "b">>, <<"u", "a">> }
Patterns == { <<"s">>, <<"a">>, <<>> }
Values == { "v1", "v2" }
TTLs == { -1, 0, 1 }
\* Python's None: what get returns for an absent or expired key.
NoneVal == "None"

VARIABLES
  cache,      \* InMemoryCache._cache, in dict order: <<[key, value, expiry, created]>>
  max_size,   \* InMemoryCache._max_size
  hits,       \* InMemoryCache._hits
  misses,     \* InMemoryCache._misses
  evictions,  \* InMemoryCache._evictions
  sets,       \* InMemoryCache._sets
  now,        \* the wall clock read by datetime.now()
  call,       \* the last cache operation called: [op, key, value, ttl, at, n, prev]
  ret,        \* what that operation returned
  rpc,             \* where one BaseClient._request call stands
  attempt_number,  \* tenacity's retry_state.attempt_number
  outcomes,        \* what self.client.request + raise_for_status gave, per attempt
  sleeps,          \* the delays tenacity slept between the attempts
  result,          \* what _request returned or raised to its caller
  surfaced,        \* what IntuneClient.fetch_devices_by_user_email returned or raised
  sent,            \* what GlobalErrorHandlerMiddleware.dispatch returned or raised
  client,          \* BaseClient.client, the httpx.AsyncClient of the call: none, open, closed
  nclients,      \* how many IntuneClient instances have been constructed
  access_token,  \* IntuneClient.access_token, per instance
  token_expiry,  \* IntuneClient.token_expiry, per instance
  acquired,      \* per instance: when its last acquisition completed, and with what
  posts,         \* how many POSTs the token endpoint has received
  tpc,           \* per task: where its call stands
  tcl,           \* per task: the client instance it calls
  token_data,    \* per task: the token endpoint's answer it holds
  tres,          \* per task: what its call returned or raised
  temail,        \* per task: the email its fetch_devices_by_email is about
  pools,         \* how many httpx.AsyncClient instances are open
  gets,          \* how many GETs the Graph endpoint has been sent
  tacq,          \* per task: the number of its POST among all POSTs
  lock,       \* InMemoryCache._lock: the thread that holds it, or 0
  thr,        \* per thread: the operation it runs and where it stands in it
  loc,        \* per thread: what its operation has read of the cache
  lin,        \* the cache after the completed operations, run one after another
  ndone,      \* how many operations the threads have started
  phase,      \* the application: created, running, closing, stopped
  task,       \* the task running cleanup_cache_periodically: none, sleeping, ended
  slept,      \* how long that task's asyncio.sleep has lasted
  sweeps,     \* how many times that task has called cleanup_expired
  content     \* per object a caller handed to the cache: what it holds now

cacheVars == <<cache, max_size, hits, misses, evictions, sets, now, call, ret>>

requestVars == <<rpc, attempt_number, outcomes, sleeps, result, surfaced, sent, client>>

tokenVars ==
  <<nclients, access_token, token_expiry, acquired, posts, tpc, tcl, token_data, tres,
    temail, pools, gets, tacq>>

threadVars == <<lock, thr, loc, lin, ndone>>

----------------------------------------------------------------------------
(***************************************************************************)
(* The dict InMemoryCache._cache.                                           *)
(***************************************************************************)
Max(a, b) == IF a >= b THEN a ELSE b

KeysOf(c) == { c[i].key : i \in 1..Len(c) }

Has(c, key) == key \in KeysOf(c)

IndexOf(c, key) == CHOOSE i \in 1..Len(c) : c[i].key = key

Lookup(c, key) == c[IndexOf(c, key)]

\* del self._cache[key]
Remove(c, key) == SelectSeq(c, LAMBDA e : e.key # key)

RemoveAll(c, ks) == SelectSeq(c, LAMBDA e : e.key \notin ks)

\* a bug: the assignment leaves an existing key's entry as it was
PutKeepOld(c, entry) ==
  IF Has(c, entry.key) THEN c ELSE Append(c, entry)

\* self._cache[key] = (...): an existing key keeps its place in the dict, a new
\* key goes to the end.
Put(c, entry) ==
  IF Has(c, entry.key)
  THEN [c EXCEPT ![IndexOf(c, entry.key)] = entry]
  ELSE Append(c, entry)

\* a bug: the pattern is only looked for at the start of the key
StartsWith(pattern, k) ==
  Len(pattern) <= Len(k) /\ SubSeq(k, 1, Len(pattern)) = pattern

\* pattern in k, for Python strings
Contains(pattern, k) ==
  \E i \in 0..(Len(k) - Len(pattern)) : SubSeq(k, i + 1, i + Len(pattern)) = pattern

DropAt(c, i) == SubSeq(c, 1, i - 1) \o SubSeq(c, i + 1, Len(c))

\* sorted(self._cache.items(), key=created): a stable sort, so that entries
\* created at the same instant stay in dict order.
RECURSIVE SortedItems(_)
SortedItems(c) ==
  IF c = <<>> THEN <<>>
  ELSE LET first == CHOOSE i \in 1..Len(c) :
                      /\ \A j \in 1..Len(c) : c[i].created <= c[j].created
                      /\ \A j \in 1..(i - 1) : c[j].created > c[i].created
       IN <<c[first]>> \o SortedItems(DropAt(c, first))

EvictCountMin1 == 1

\* evict_count = max(1, len(sorted_items) // 10)
EvictCount(c) == Max(EvictCountMin1, Len(c) \div 10)

\* the keys _evict_lru deletes: none of an empty cache
EvictedKeys(c) ==
  IF c = <<>> THEN {}
  ELSE { SortedItems(c)[j].key : j \in 1..EvictCount(c) }

\* _evict_lru's effect on the dict
EvictLru(c) == RemoveAll(c, EvictedKeys(c))

\* a bug: the capacity test is off by one
NeedsEvictionOffByOne(c, key) == Len(c) > max_size /\ ~Has(c, key)

\* a bug: a full cache evicts on every set, also on an overwrite
NeedsEvictionWhenFull(c, key) == Len(c) >= max_size

\* set's test for an eviction before the insert
NeedsEviction(c, key) == Len(c) >= max_size /\ ~Has(c, key)

\* round(num / den * 100, 2) in hundredths of a percent (ties to even)
RoundPct(num, den) ==
  LET q == (num * 10000) \div den
      r == (num * 10000) % den
  IN IF 2 * r > den \/ (2 * r = den /\ q % 2 = 1) THEN q + 1 ELSE q

Called(op, key, value, ttl) ==
  [op |-> op, key |-> key, value |-> value, ttl |-> ttl, at |-> now, n |-> call.n + 1,
   prev |-> call.op]

----------------------------------------------------------------------------
(***************************************************************************)
(* The operations of InMemoryCache, each atomic under self._lock.           *)
(***************************************************************************)
\* InMemoryCache.__init__(max_size), for max_size in sizes
NewCache(sizes) ==
  /\ cache = <<>>
  /\ max_size \in sizes
  /\ hits = 0 /\ misses = 0 /\ evictions = 0 /\ sets = 0
  /\ now = 0
  /\ call = [op |-> "init", key |-> <<>>, value |-> NoneVal, ttl |-> 0, at |-> 0, n |-> 0,
             prev |-> "none"]
  /\ ret = NoneVal

\* a bug: the entry still counts as live at its expiry instant
LiveAtExpiry(e, t) == t <= e.expiry

\* datetime.now() < expiry
Live(e, t) == t < e.expiry

\* a bug: a hit makes the entry the youngest, as a least-recently-used cache does
GetTouches(key) ==
  /\ call' = Called("get", key, NoneVal, 0)
  /\ IF Has(cache, key) /\ Live(Lookup(cache, key), now)
     THEN /\ hits' = hits + 1
          /\ ret' = Lookup(cache, key).value
          /\ cache' = Put(cache, [Lookup(cache, key) EXCEPT !.created = now])
          /\ UNCHANGED misses
     ELSE /\ cache' = Remove(cache, key)
          /\ misses' = misses + 1
          /\ ret' = NoneVal
          /\ UNCHANGED hits
  /\ UNCHANGED <<max_size, evictions, sets, now>>

Get(key) ==
  /\ call' = Called("get", key, NoneVal, 0)
  /\ IF Has(cache, key) /\ Live(Lookup(cache, key), now)
     THEN /\ hits' = hits + 1
          /\ ret' = Lookup(cache, key).value
          /\ UNCHANGED <<cache, misses>>
     ELSE /\ cache' = Remove(cache, key)
          /\ misses' = misses + 1
          /\ ret' = NoneVal
          /\ UNCHANGED hits
  /\ UNCHANGED <<max_size, evictions, sets, now>>

\* a bug: an overwrite is not counted as a set
SetCountsNewKeys(key, value, ttl, d) ==
  LET evict == NeedsEviction(cache, key)
      kept == IF evict THEN EvictLru(cache) ELSE cache
      gone == IF evict THEN Cardinality(EvictedKeys(cache)) ELSE 0
      entry == [key |-> key, value |-> value, expiry |-> now + ttl, created |-> now + d]
  IN /\ call' = Called("set", key, value, ttl)
     /\ cache' = Put(kept, entry)
     /\ evictions' = evictions + gone
     /\ sets' = IF Has(cache, key) THEN sets ELSE sets + 1
     /\ now' = now + d
     /\ ret' = NoneVal
     /\ UNCHANGED <<max_size, hits, misses>>

\* d: the clock's advance between set's two reads of datetime.now()
Set(key, value, ttl, d) ==
  LET evict == NeedsEviction(cache, key)
      kept == IF evict THEN EvictLru(cache) ELSE cache
      gone == IF evict THEN Cardinality(EvictedKeys(cache)) ELSE 0
      entry == [key |-> key, value |-> value, expiry |-> now + ttl, created |-> now + d]
  IN /\ call' = Called("set", key, value, ttl)
     /\ cache' = Put(kept, entry)
     /\ evictions' = evictions + gone
     /\ sets' = sets + 1
     /\ now' = now + d
     /\ ret' = NoneVal
     /\ UNCHANGED <<max_size, hits, misses>>

\* a bug: delete reports a removal whether or not the key was stored
DeleteReportsTrue(key) ==
  /\ call' = Called("delete", key, NoneVal, 0)
  /\ cache' = Remove(cache, key)
  /\ ret' = TRUE
  /\ UNCHANGED <<max_size, hits, misses, evictions, sets, now>>

Delete(key) ==
  /\ call' = Called("delete", key, NoneVal, 0)
  /\ cache' = Remove(cache, key)
  /\ ret' = Has(cache, key)
  /\ UNCHANGED <<max_size, hits, misses, evictions, sets, now>>

DeletePattern(pattern) ==
  LET keys_to_delete == { k \in KeysOf(cache) : Contains(pattern, k) }
  IN /\ call' = Called("delete_pattern", pattern, NoneVal, 0)
     /\ cache' = RemoveAll(cache, keys_to_delete)
     /\ ret' = Cardinality(keys_to_delete)
     /\ UNCHANGED <<max_size, hits, misses, evictions, sets, now>>

\* a bug: clear leaves the oldest entry in the dict
ClearButFirst ==
  /\ call' = Called("clear", <<>>, NoneVal, 0)
  /\ cache' = IF cache = <<>> THEN <<>> ELSE <<cache[1]>>
  /\ ret' = NoneVal
  /\ UNCHANGED <<max_size, hits, misses, evictions, sets, now>>

Clear ==
  /\ call' = Called("clear", <<>>, NoneVal, 0)
  /\ cache' = <<>>
  /\ ret' = NoneVal
  /\ UNCHANGED <<max_size, hits, misses, evictions, sets, now>>

\* a bug: an entry at its expiry instant is not swept
ExpiredStrictly(e, t) == t > e.expiry

\* now >= expiry
Expired(e, t) == t >= e.expiry

CleanupExpired ==
  LET expired_keys == { k \in KeysOf(cache) : Expired(Lookup(cache, k), now) }
  IN /\ call' = Called("cleanup_expired", <<>>, NoneVal, 0)
     /\ cache' = RemoveAll(cache, expired_keys)
     /\ ret' = Cardinality(expired_keys)
     /\ UNCHANGED <<max_size, hits, misses, evictions, sets, now>>

Stats ==
  LET total_requests == hits + misses
  IN /\ call' = Called("stats", <<>>, NoneVal, 0)
     /\ ret' = IF max_size = 0
               THEN [error |-> "ZeroDivisionError"]
               ELSE [size |-> Len(cache),
                     max_size |-> max_size,
                     usage_percent |-> RoundPct(Len(cache), max_size),
                     hits |-> hits,
                     misses |-> misses,
                     hit_rate_percent |-> IF total_requests > 0
                                          THEN RoundPct(hits, total_requests) ELSE 0,
                     evictions |-> evictions,
                     total_sets |-> sets,
                     total_requests |-> total_requests]
     /\ UNCHANGED <<cache, max_size, hits, misses, evictions, sets, now>>

\* a bug: the reset drops the stored entries too
ResetStatsAndEntries ==
  /\ call' = Called("reset_stats", <<>>, NoneVal, 0)
  /\ hits' = 0 /\ misses' = 0 /\ evictions' = 0 /\ sets' = 0
  /\ cache' = <<>>
  /\ ret' = NoneVal
  /\ UNCHANGED <<max_size, now>>

ResetStats ==
  /\ call' = Called("reset_stats", <<>>, NoneVal, 0)
  /\ hits' = 0 /\ misses' = 0 /\ evictions' = 0 /\ sets' = 0
  /\ ret' = NoneVal
  /\ UNCHANGED <<cache, max_size, now>>

\* the wall clock moves on between two operations
Tick ==
  /\ now' = now + 1
  /\ UNCHANGED <<cache, max_size, hits, misses, evictions, sets, call, ret>>

----------------------------------------------------------------------------
(***************************************************************************)
(* BaseClient._request under tenacity's                                     *)
(*   @retry(stop=stop_after_attempt(3),                                     *)
(*          wait=wait_exponential(multiplier=1, min=2, max=10),             *)
(*          reraise=True)                                                   *)
(* and the caller IntuneClient.fetch_devices_by_user_email.                 *)
(***************************************************************************)
MaxAttempts == 3
WaitMultiplier == 1
WaitMin == 2
WaitMax == 10
BadGateway == 502

Min(a, b) == IF a <= b THEN a ELSE b

Statuses == { 200, 404, 500 }

\* httpx.TimeoutException and its subclasses
TimeoutErrors == { "ConnectTimeout", "ReadTimeout" }
\* httpx.NetworkError and its subclasses (ConnectError: refused; ReadError: reset)
NetworkErrors == { "ConnectError", "ReadError" }
\* the other subclasses of httpx.HTTPError raised before a response is complete
OtherHttpErrors == { "RemoteProtocolError" }

\* what one self.client.request(method, endpoint) + raise_for_status() gives
Response(status) == [kind |-> "response", status |-> status, exc |-> NoneVal]
Failure(exc) == [kind |-> "error", status |-> 0, exc |-> exc]
TransportOutcomes ==
  { Response(st) : st \in Statuses }
    \cup { Failure(x) : x \in TimeoutErrors \cup NetworkErrors \cup OtherHttpErrors }

\* response.raise_for_status() passes
IsOk(o) == o.kind = "response" /\ o.status < 400

\* the exception attempt n of _request raises on outcome o; each attempt raises
\* an exception object of its own
Raised(o, n) ==
  IF o.kind = "response"
  THEN [type |-> "HTTPStatusError", status |-> o.status, cause |-> NoneVal, attempt |-> n]
  ELSE IF o.exc \in TimeoutErrors
  THEN [type |-> "ServiceTimeoutError", status |-> 0, cause |-> o.exc, attempt |-> n]
  ELSE IF o.exc \in NetworkErrors
  THEN [type |-> "ServiceConnectionError", status |-> 0, cause |-> o.exc, attempt |-> n]
  ELSE [type |-> o.exc, status |-> 0, cause |-> NoneVal, attempt |-> n]

\* nothing returned or raised yet
NoResult == [type |-> "None", status |-> 0, cause |-> NoneVal, attempt |-> 0]

Returned(o, n) ==
  [type |-> "Response", status |-> o.status, cause |-> NoneVal, attempt |-> n]

\* a bug: one attempt too many
ShouldStopLate(n) == n > MaxAttempts

\* a bug: one attempt too few
ShouldStopEarly(n) == n >= MaxAttempts - 1

\* stop_after_attempt(3)
ShouldStop(n) == n >= MaxAttempts

\* a bug: the retry decision also takes exceptions that are no Exception
RetryBaseException(e) == TRUE

\* @retry without retry=: tenacity's default retry_if_exception_type() retries
\* on every Exception; asyncio.CancelledError is a BaseException and no Exception
ShouldRetry(e) == e.type # "CancelledError"

RECURSIVE Pow2(_)
Pow2(n) == IF n <= 0 THEN 1 ELSE 2 * Pow2(n - 1)

\* wait_exponential(multiplier=1, min=2, max=10) after attempt n
Wait(n) == Max(Max(0, WaitMin), Min(WaitMultiplier * Pow2(n - 1), WaitMax))

\* isinstance(e, httpx.HTTPError), for what _request raises
IsHttpxError(e) == e.type \in { "HTTPStatusError" } \cup OtherHttpErrors

\* dispatch has not returned yet
NoSent == [kind |-> "none"]

NoRequest ==
  /\ rpc = "idle"
  /\ attempt_number = 0
  /\ outcomes = <<>>
  /\ sleeps = <<>>
  /\ result = NoResult
  /\ surfaced = NoResult
  /\ sent = NoSent
  /\ client = "none"

\* __aenter__ has created self.client and the caller awaits
\* self.get(endpoint, ...): tenacity starts attempt 1
RequestStart ==
  /\ rpc = "idle"
  /\ rpc' = "sending"
  /\ attempt_number' = 1
  /\ client' = "open"
  /\ UNCHANGED <<outcomes, sleeps, result, surfaced, sent>>

\* one run of _request's body, and tenacity's decision on it
RequestAttempt(o) ==
  /\ rpc = "sending"
  /\ outcomes' = Append(outcomes, o)
  /\ IF IsOk(o)
     THEN /\ rpc' = "returned"
          /\ result' = Returned(o, attempt_number)
          /\ UNCHANGED sleeps
     ELSE IF ~ShouldRetry(Raised(o, attempt_number)) \/ ShouldStop(attempt_number)
     THEN /\ rpc' = "raised"
          /\ result' = Raised(o, attempt_number)
          /\ UNCHANGED sleeps
     ELSE /\ rpc' = "sleeping"
          /\ sleeps' = Append(sleeps, Wait(attempt_number))
          /\ UNCHANGED result
  /\ UNCHANGED <<attempt_number, surfaced, sent, client>>

\* the task is cancelled while it awaits the request (the wait for a
\* connection and for the response) or the retry delay: asyncio raises
\* CancelledError at that await; inside an attempt tenacity decides on it as
\* on any exception, inside the delay it propagates
RequestCancel ==
  /\ rpc \in { "sending", "sleeping" }
  /\ LET e == Raised(Failure("CancelledError"), attempt_number)
     IN IF rpc = "sending" /\ ShouldRetry(e) /\ ~ShouldStop(attempt_number)
        THEN /\ rpc' = "sleeping"
             /\ outcomes' = Append(outcomes, Failure("CancelledError"))
             /\ sleeps' = Append(sleeps, Wait(attempt_number))
             /\ UNCHANGED result
        ELSE /\ rpc' = "cancelled"
             /\ result' = e
             /\ outcomes' = IF rpc = "sending"
                            THEN Append(outcomes, Failure("CancelledError"))
                            ELSE outcomes
             /\ UNCHANGED sleeps
  /\ UNCHANGED <<attempt_number, surfaced, sent, client>>

\* the retry delay is over: the next attempt
RequestWake ==
  /\ rpc = "sleeping"
  /\ rpc' = "sending"
  /\ attempt_number' = attempt_number + 1
  /\ UNCHANGED <<outcomes, sleeps, result, surfaced, sent, client>>

\* fetch_devices_by_user_email: the response's JSON, or ExternalServiceError for
\* an httpx.HTTPError; any other exception passes through
Surface ==
  /\ rpc \in { "returned", "raised", "cancelled" }
  /\ surfaced = NoResult
  /\ surfaced' =
       IF rpc = "returned" THEN result
       ELSE IF IsHttpxError(result)
       THEN [type |-> "ExternalServiceError",
             status |-> IF result.status # 0 THEN result.status ELSE BadGateway,
             cause |-> result.type, attempt |-> result.attempt]
       ELSE result
  /\ UNCHANGED <<rpc, attempt_number, outcomes, sleeps, result, sent, client>>

\* BaseClient.__aexit__, as the async with block of the caller is left with
\* the call's result or exception: await self.client.aclose()
ClientExit ==
  /\ surfaced # NoResult
  /\ client = "open"
  /\ client' = "closed"
  /\ UNCHANGED <<rpc, attempt_number, outcomes, sleeps, result, surfaced, sent>>

\* request.state.request_id, as RequestIDMiddleware set it
RequestIds == { "r1", "r2" }

\* the exceptions dispatch has an except clause for
HandledErrors ==
  { "ExternalServiceError", "CredentialError", "ConfigurationError",
    "CircuitBreakerOpenError" }

\* the status_code of the JSONResponse of each of these except clauses
HandledStatus(type) ==
  IF type = "CredentialError" THEN 401
  ELSE IF type = "CircuitBreakerOpenError" THEN 503
  ELSE 500

\* JSONResponse(status_code=..., content={"success": False, "message": ...,
\* "data": None, "timestamp": ..., "request_id": ...})
ErrorBody(status, message, request_id) ==
  [kind |-> "JSONResponse", status |-> status, success |-> FALSE, message |-> message,
   request_id |-> request_id]

\* GlobalErrorHandlerMiddleware.dispatch around the route that awaited the
\* outbound call: the route's response, the JSON error body for the exceptions
\* it has an except clause for, and any other exception propagates, since the
\* statements after the try are reached by no path
Dispatch(request_id) ==
  /\ surfaced # NoResult
  /\ client = "closed"
  /\ sent = NoSent
  /\ sent' =
       IF surfaced.type = "Response"
       THEN [kind |-> "Response", status |-> 200]
       ELSE IF surfaced.type = "ExternalServiceError"
       THEN ErrorBody(IF surfaced.status # 0 THEN surfaced.status ELSE BadGateway,
                      surfaced.cause, request_id)
       ELSE IF surfaced.type \in HandledErrors
       THEN ErrorBody(HandledStatus(surfaced.type), surfaced.type, request_id)
       ELSE [kind |-> "raised", exc |-> surfaced.type]
  /\ UNCHANGED <<rpc, attempt_number, outcomes, sleeps, result, surfaced, client>>

----------------------------------------------------------------------------
(***************************************************************************)
(* IntuneClient._get_access_token (NextThinkClient._get_access_token is the *)
(* same code with another token endpoint), called by tasks of the event     *)
(* loop; and IntuneService.fetch_devices_by_email, which constructs a       *)
(* client of its own for every call.                                        *)
(***************************************************************************)
SafetyMargin == 300
DefaultExpiresIn == 3600
CACHE_TTL_DEVICE == 900

Clients == 1..MaxClients
Tasks == { 1, 2 }
Emails == { "a", "b" }

\* Optional[...]: None, or a value
None == <<>>
Some(x) == <<x>>

\* the instants at which the clock is read
TokenTimes == { 0, 1, 3299, 3300, 3301 }
\* the lifetimes the issuer reports in "expires_in"
ExpiresIns == { 3600, 301 }

\* what the POST to the token endpoint, raise_for_status() and response.json()
\* give: a JSON object with or without "access_token" and "expires_in", a
\* non-2xx status, a transport failure, or a body that is no JSON
TokenAnswer(kind, status, has_token, expires_in) ==
  [kind |-> kind, status |-> status, has_token |-> has_token, expires_in |-> expires_in]
TokenOutcomes ==
  { TokenAnswer("json", 200, TRUE, Some(e)) : e \in ExpiresIns }
    \cup { TokenAnswer("json", 200, TRUE, None), TokenAnswer("json", 200, FALSE, None),
           TokenAnswer("status", 401, FALSE, None), TokenAnswer("status", 500, FALSE, None),
           TokenAnswer("transport", 0, FALSE, None),
           TokenAnswer("undecodable", 200, FALSE, None) }
NoAnswer == TokenAnswer("none", 0, FALSE, None)

TokenResult(type, token, status) == [type |-> type, token |-> token, status |-> status]
NoTokenResult == TokenResult("none", None, 0)

\* IntuneClient.__init__
NoTokens(n) ==
  /\ nclients = n
  /\ access_token = [c \in Clients |-> None]
  /\ token_expiry = [c \in Clients |-> None]
  /\ acquired = [c \in Clients |-> None]
  /\ posts = 0
  /\ tpc = [t \in Tasks |-> "idle"]
  /\ tcl = [t \in Tasks |-> 1]
  /\ token_data = [t \in Tasks |-> NoAnswer]
  /\ tres = [t \in Tasks |-> NoTokenResult]
  /\ temail = [t \in Tasks |-> "a"]
  /\ pools = 0
  /\ gets = 0
  /\ tacq = [t \in Tasks |-> 0]

\* self.access_token and self.token_expiry and datetime.now() < self.token_expiry
TokenLive(token, expiry) == token # None /\ expiry # None /\ now < expiry[1]

\* the check, on the fields of client c
TokenValid(c) == TokenLive(access_token[c], token_expiry[c])

\* a bug: the new expiry is counted from the previous expiry
NewExpiryFromOld(c, expires_in) ==
  IF token_expiry[c] # None
  THEN token_expiry[c][1] + (expires_in - SafetyMargin)
  ELSE now + (expires_in - SafetyMargin)

\* datetime.now() + timedelta(seconds=expires_in - 300)
NewExpiry(c, expires_in) == now + (expires_in - SafetyMargin)

\* token_data.get("expires_in", 3600)
ExpiresIn(answer) ==
  IF answer.expires_in = None THEN DefaultExpiresIn ELSE answer.expires_in[1]

\* a task calls client._get_access_token() on an instance that exists
TokenCall(t, c) ==
  /\ tpc[t] \in { "idle", "got" }
  /\ c <= nclients
  /\ tpc' = [tpc EXCEPT ![t] = "check"]
  /\ tcl' = [tcl EXCEPT ![t] = c]
  /\ tres' = [tres EXCEPT ![t] = NoTokenResult]
  /\ token_data' = [token_data EXCEPT ![t] = NoAnswer]
  /\ UNCHANGED <<nclients, access_token, token_expiry, acquired, posts, temail, pools, gets,
                 tacq>>

\* another task's acquisition on the instance of task t is under way
InFlight(t) ==
  \E u \in Tasks \ {t} : tcl[u] = tcl[t] /\ tpc[u] \in { "posting", "closing" }

\* what the code does not do: single flight, a caller that finds an
\* acquisition under way takes what is stored instead of POSTing
TokenCheckSingleFlight(t) ==
  /\ tpc[t] = "check"
  /\ IF TokenValid(tcl[t]) \/ InFlight(t)
     THEN /\ tpc' = [tpc EXCEPT ![t] = "got"]
          /\ tres' = [tres EXCEPT ![t] = TokenResult("token", access_token[tcl[t]], 0)]
          /\ UNCHANGED <<posts, pools, tacq>>
     ELSE /\ tpc' = [tpc EXCEPT ![t] = "posting"]
          /\ posts' = posts + 1
          /\ tacq' = [tacq EXCEPT ![t] = posts + 1]
          /\ pools' = pools + 1
          /\ UNCHANGED tres
  /\ UNCHANGED <<nclients, access_token, token_expiry, acquired, tcl, token_data, temail,
                 gets>>

\* the cached token, or the POST to the token endpoint (await client.post)
TokenCheck(t) ==
  /\ tpc[t] = "check"
  /\ IF TokenValid(tcl[t])
     THEN /\ tpc' = [tpc EXCEPT ![t] = "got"]
          /\ tres' = [tres EXCEPT ![t] = TokenResult("token", access_token[tcl[t]], 0)]
          /\ UNCHANGED <<posts, pools, tacq>>
     ELSE /\ tpc' = [tpc EXCEPT ![t] = "posting"]
          /\ posts' = posts + 1
          /\ tacq' = [tacq EXCEPT ![t] = posts + 1]
          /\ pools' = pools + 1
          /\ UNCHANGED tres
  /\ UNCHANGED <<nclients, access_token, token_expiry, acquired, tcl, token_data, temail,
                 gets>>

\* the POST is answered: the exception leaves the async with block, which
\* closes the httpx client, and is handled; or self.access_token =
\* token_data.get("access_token") and the await of the httpx client's close
TokenResponse(t, o) ==
  /\ tpc[t] = "posting"
  /\ token_data' = [token_data EXCEPT ![t] = o]
  /\ IF o.kind = "json"
     THEN /\ access_token' =
               [access_token EXCEPT ![tcl[t]] = IF o.has_token THEN Some(tacq[t]) ELSE None]
          /\ tpc' = [tpc EXCEPT ![t] = "closing"]
          /\ UNCHANGED <<tres, pools>>
     ELSE /\ tpc' = [tpc EXCEPT ![t] = "got"]
          /\ tres' = [tres EXCEPT ![t] =
               IF o.kind = "status" THEN TokenResult("ExternalServiceError", None, o.status)
               ELSE IF o.kind = "transport"
               THEN TokenResult("ExternalServiceError", None, BadGateway)
               ELSE TokenResult("JSONDecodeError", None, 0)]
          /\ pools' = pools - 1
          /\ UNCHANGED access_token
  /\ UNCHANGED <<nclients, token_expiry, acquired, posts, tcl, temail, gets, tacq>>

\* the httpx client is closed; self.token_expiry = ...; return self.access_token
TokenStoreExpiry(t) ==
  /\ tpc[t] = "closing"
  /\ token_expiry' =
       [token_expiry EXCEPT ![tcl[t]] = Some(NewExpiry(tcl[t], ExpiresIn(token_data[t])))]
  /\ acquired' = [acquired EXCEPT ![tcl[t]] =
       Some([at |-> now, expires_in |-> ExpiresIn(token_data[t]),
             token |-> access_token[tcl[t]], by |-> tacq[t]])]
  /\ tpc' = [tpc EXCEPT ![t] = "got"]
  /\ tres' = [tres EXCEPT ![t] = TokenResult("token", access_token[tcl[t]], 0)]
  /\ pools' = pools - 1
  /\ UNCHANGED <<nclients, access_token, posts, tcl, token_data, temail, gets, tacq>>

\* cache_key = f"intune:devices_by_email:{email}"
DeviceKey(email) == <<"intune:devices_by_email:", email>>

\* fetch_devices_by_email up to its first await: the cached devices, or a
\* client constructed for this call, whose __aenter__ calls _get_access_token,
\* which checks the new instance's token and POSTs to the token endpoint
FetchDevicesByEmail(t, email) ==
  /\ tpc[t] \in { "idle", "done" }
  /\ Get(DeviceKey(email))
  /\ temail' = [temail EXCEPT ![t] = email]
  /\ token_data' = [token_data EXCEPT ![t] = NoAnswer]
  /\ IF ret' # NoneVal
     THEN /\ tpc' = [tpc EXCEPT ![t] = "done"]
          /\ tres' = [tres EXCEPT ![t] = TokenResult("devices", None, 0)]
          /\ UNCHANGED <<nclients, access_token, token_expiry, tcl, posts, pools, tacq>>
     ELSE /\ nclients < MaxClients
          /\ nclients' = nclients + 1
          /\ tcl' = [tcl EXCEPT ![t] = nclients + 1]
          /\ access_token' = [access_token EXCEPT ![nclients + 1] = None]
          /\ token_expiry' = [token_expiry EXCEPT ![nclients + 1] = None]
          /\ IF TokenLive(None, None)
             THEN /\ tpc' = [tpc EXCEPT ![t] = "got"]
                  /\ tres' = [tres EXCEPT ![t] = TokenResult("token", None, 0)]
                  /\ UNCHANGED <<posts, pools, tacq>>
             ELSE /\ tpc' = [tpc EXCEPT ![t] = "posting"]
                  /\ tres' = [tres EXCEPT ![t] = NoTokenResult]
                  /\ posts' = posts + 1
                  /\ tacq' = [tacq EXCEPT ![t] = posts + 1]
                  /\ pools' = pools + 1
  /\ UNCHANGED <<acquired, gets>>

\* the rest of IntuneClient.__aenter__ with the token it was returned, and
\* fetch_devices_by_user_email up to its await: self.client =
\* httpx.AsyncClient(...) with the bearer header, and the GET is sent
FetchSend(t) ==
  /\ tpc[t] = "got"
  /\ tres[t].type = "token"
  /\ tpc' = [tpc EXCEPT ![t] = "fetching"]
  /\ pools' = pools + 1
  /\ gets' = gets + 1
  /\ UNCHANGED <<nclients, access_token, token_expiry, acquired, posts, tcl, token_data,
                 tres, temail, tacq>>

\* the rest of fetch_devices_by_email: the token call's error propagates out
\* of __aenter__; or the GET is answered, __aexit__ closes self.client, and
\* the devices are cached or the failure is raised
FetchDevices(t, ok) ==
  /\ \/ tpc[t] = "fetching"
     \/ tpc[t] = "got" /\ tres[t].type # "token"
  /\ tpc' = [tpc EXCEPT ![t] = "done"]
  /\ pools' = IF tpc[t] = "fetching" THEN pools - 1 ELSE pools
  /\ IF tres[t].type = "token" /\ ok
     THEN /\ Set(DeviceKey(temail[t]), "v1", CACHE_TTL_DEVICE, 0)
          /\ tres' = [tres EXCEPT ![t] = TokenResult("devices", None, 0)]
     ELSE /\ tres' = [tres EXCEPT ![t] =
               IF tres[t].type = "token"
               THEN TokenResult("ExternalServiceError", None, BadGateway)
               ELSE tres[t]]
          /\ UNCHANGED cacheVars
  /\ token_data' = [token_data EXCEPT ![t] = NoAnswer]
  /\ UNCHANGED <<nclients, access_token, token_expiry, acquired, posts, tcl, temail, gets,
                 tacq>>

\* the clock moves on to a later instant
TokenTick ==
  /\ now' \in { x \in TokenTimes : x > now }
  /\ UNCHANGED <<cache, max_size, hits, misses, evictions, sets, call, ret>>

----------------------------------------------------------------------------
(***************************************************************************)
(* The operations of InMemoryCache called from several threads: each body   *)
(* runs inside "with self._lock", reads the dict and the counters, deletes  *)
(* from the dict, and then stores the rest of its results.                  *)
(***************************************************************************)
Threads == { 1, 2 }
ThreadOps ==
  { "get", "set", "delete", "delete_pattern", "clear", "cleanup_expired", "stats",
    "reset_stats" }
ThreadKeys == { <<"s", "a">>, <<"u", "a">> }
ThreadTTLs == { 0, 1 }
ThreadSizes == { 0, 1, 2 }

\* the dict and the counters, as one value
Shared == [cache |-> cache, hits |-> hits, misses |-> misses, evictions |-> evictions,
           sets |-> sets]

\* the first part of an operation's body on the state st it has read, at clock
\* t: the deletions from the dict (and the eviction count kept with them)
ApplyDeletes(op, key, st, t) ==
  IF op = "get"
  THEN IF Has(st.cache, key) /\ ~Live(Lookup(st.cache, key), t)
       THEN [st EXCEPT !.cache = Remove(st.cache, key)]
       ELSE st
  ELSE IF op = "set"
  THEN IF NeedsEviction(st.cache, key)
       THEN [st EXCEPT !.cache = EvictLru(st.cache),
                       !.evictions = @ + Cardinality(EvictedKeys(st.cache))]
       ELSE st
  ELSE IF op = "delete" THEN [st EXCEPT !.cache = Remove(st.cache, key)]
  ELSE IF op = "delete_pattern"
  THEN [st EXCEPT !.cache =
          RemoveAll(st.cache, { k \in KeysOf(st.cache) : Contains(key, k) })]
  ELSE IF op = "clear" THEN [st EXCEPT !.cache = <<>>]
  ELSE IF op = "cleanup_expired"
  THEN [st EXCEPT !.cache =
          RemoveAll(st.cache, { k \in KeysOf(st.cache) : Expired(Lookup(st.cache, k), t) })]
  ELSE IF op = "reset_stats" THEN [st EXCEPT !.hits = 0, !.misses = 0]
  ELSE st

\* the whole body of an operation on the state st it has read: the clock is t
\* at its first reading and t + d at set's second
Apply(op, key, value, ttl, st, t, d) ==
  LET half == ApplyDeletes(op, key, st, t)
  IN IF op = "get"
     THEN IF Has(st.cache, key) /\ Live(Lookup(st.cache, key), t)
          THEN [half EXCEPT !.hits = @ + 1]
          ELSE [half EXCEPT !.misses = @ + 1]
     ELSE IF op = "set"
     THEN [half EXCEPT
             !.cache = Put(half.cache, [key |-> key, value |-> value, expiry |-> t + ttl,
                                        created |-> t + d]),
             !.sets = @ + 1]
     ELSE IF op = "reset_stats" THEN [half EXCEPT !.evictions = 0, !.sets = 0]
     ELSE half

\* no thread has called the cache
NoThreads ==
  /\ lock = 0
  /\ thr = [t \in Threads |->
              [pc |-> "idle", op |-> "none", key |-> <<>>, ttl |-> 0, at |-> 0]]
  /\ loc = [t \in Threads |-> Shared]
  /\ lin = Shared
  /\ ndone = 0

\* a bug: the body is entered whether or not another thread holds the lock
LockIgnored(t) == TRUE

\* self._lock can be acquired by thread t (no body acquires it twice)
LockFree(t) == lock = 0

\* the store of the state st into the dict and the counters
Store(st) ==
  /\ cache' = st.cache
  /\ hits' = st.hits
  /\ misses' = st.misses
  /\ evictions' = st.evictions
  /\ sets' = st.sets

\* thread t calls an operation: it waits for the lock
ThreadCall(t, op, key, ttl) ==
  /\ thr[t].pc = "idle"
  /\ thr' = [thr EXCEPT ![t] = [pc |-> "lock", op |-> op, key |-> key, ttl |-> ttl, at |-> 0]]
  /\ ndone' = ndone + 1
  /\ UNCHANGED <<cacheVars, lock, loc, lin>>

\* with self._lock: __enter__
ThreadAcquire(t) ==
  /\ thr[t].pc = "lock"
  /\ LockFree(t)
  /\ lock' = t
  /\ thr' = [thr EXCEPT ![t].pc = "read"]
  /\ UNCHANGED <<cacheVars, loc, lin, ndone>>

\* the body reads the dict, the counters and the clock
ThreadRead(t) ==
  /\ thr[t].pc = "read"
  /\ loc' = [loc EXCEPT ![t] = Shared]
  /\ thr' = [thr EXCEPT ![t].pc = "delete", ![t].at = now]
  /\ UNCHANGED <<cacheVars, lock, lin, ndone>>

\* the body deletes from the dict what it found to delete
ThreadDelete(t) ==
  /\ thr[t].pc = "delete"
  /\ Store(ApplyDeletes(thr[t].op, thr[t].key, loc[t], thr[t].at))
  /\ thr' = [thr EXCEPT ![t].pc = "store"]
  /\ UNCHANGED <<max_size, now, call, ret, lock, loc, lin, ndone>>

\* the body stores the rest of its results; run after the operations that
\* completed before it, the operation gives lin
ThreadStore(t) ==
  /\ thr[t].pc = "store"
  /\ Store(Apply(thr[t].op, thr[t].key, "v1", thr[t].ttl, loc[t], thr[t].at, 0))
  /\ lin' = Apply(thr[t].op, thr[t].key, "v1", thr[t].ttl, lin, thr[t].at, 0)
  /\ thr' = [thr EXCEPT ![t].pc = "unlock"]
  /\ UNCHANGED <<max_size, now, call, ret, lock, loc, ndone>>

\* with self._lock: __exit__
ThreadRelease(t) ==
  /\ thr[t].pc = "unlock"
  /\ lock' = 0
  /\ thr' = [thr EXCEPT ![t].pc = "idle"]
  /\ UNCHANGED <<cacheVars, loc, lin, ndone>>

lifeVars == <<phase, task, slept, sweeps>>

heapVars == <<content>>

hostVars == <<lifeVars, heapVars>>

vars == <<cacheVars, requestVars, tokenVars, threadVars, hostVars>>

\* the process-wide cache of get_cache(): _cache_instance
CACHE_MAX_SIZE == 10000

\* the application object before its startup event
NoLife ==
  /\ phase = "created"
  /\ task = "none"
  /\ slept = 0
  /\ sweeps = 0

Contents == { "made", "changed" }

\* the objects as their callers made them
NoHeap == content = [v \in Values |-> "made"]

NoHost == NoLife /\ NoHeap

InitCache == NewCache(0..MaxCap) /\ NoRequest /\ NoTokens(0) /\ NoThreads /\ NoHost

NextCache ==
  \/ \E key \in Keys : call.n < MaxOps /\ Get(key) /\ UNCHANGED <<requestVars, tokenVars, threadVars, hostVars>>
  \/ \E key \in Keys, value \in Values, ttl \in TTLs, d \in 0..1 :
       /\ call.n < MaxOps /\ now + d <= MaxClock
       /\ Set(key, value, ttl, d) /\ UNCHANGED <<requestVars, tokenVars, threadVars, hostVars>>
  \/ \E key \in Keys : call.n < MaxOps /\ Delete(key) /\ UNCHANGED <<requestVars, tokenVars, threadVars, hostVars>>
  \/ \E pattern \in Patterns :
       call.n < MaxOps /\ DeletePattern(pattern) /\ UNCHANGED <<requestVars, tokenVars, threadVars, hostVars>>
  \/ call.n < MaxOps /\ Clear /\ UNCHANGED <<requestVars, tokenVars, threadVars, hostVars>>
  \/ call.n < MaxOps /\ CleanupExpired /\ UNCHANGED <<requestVars, tokenVars, threadVars, hostVars>>
  \/ call.n < MaxOps /\ Stats /\ UNCHANGED <<requestVars, tokenVars, threadVars, hostVars>>
  \/ call.n < MaxOps /\ ResetStats /\ UNCHANGED <<requestVars, tokenVars, threadVars, hostVars>>
  \/ now < MaxClock /\ Tick /\ UNCHANGED <<requestVars, tokenVars, threadVars, hostVars>>

SpecCache == InitCache /\ [][NextCache]_vars

InitRequest == NewCache({CACHE_MAX_SIZE}) /\ NoRequest /\ NoTokens(0) /\ NoThreads /\ NoHost

NextRequest ==
  \/ RequestStart /\ UNCHANGED <<cacheVars, tokenVars, threadVars, hostVars>>
  \/ \E o \in TransportOutcomes : RequestAttempt(o) /\ UNCHANGED <<cacheVars, tokenVars, threadVars, hostVars>>
  \/ RequestWake /\ UNCHANGED <<cacheVars, tokenVars, threadVars, hostVars>>
  \/ RequestCancel /\ UNCHANGED <<cacheVars, tokenVars, threadVars, hostVars>>
  \/ Surface /\ UNCHANGED <<cacheVars, tokenVars, threadVars, hostVars>>
  \/ ClientExit /\ UNCHANGED <<cacheVars, tokenVars, threadVars, hostVars>>
  \/ \E request_id \in RequestIds : Dispatch(request_id) /\ UNCHANGED <<cacheVars, tokenVars, threadVars, hostVars>>

SpecRequest == InitRequest /\ [][NextRequest]_vars

\* the event loop runs a task that can run, every request is answered or
\* times out, and every delay ends
SpecRequestFair == SpecRequest /\ WF_vars(NextRequest)

\* one client instance, and one task that calls _get_access_token on it time
\* and again
InitToken == NewCache({CACHE_MAX_SIZE}) /\ NoRequest /\ NoTokens(1) /\ NoThreads /\ NoHost

NextToken ==
  \/ TokenCall(1, 1) /\ UNCHANGED <<cacheVars, requestVars, threadVars, hostVars>>
  \/ /\ TokenValid(tcl[1]) \/ posts < MaxPosts
     /\ TokenCheck(1)
     /\ UNCHANGED <<cacheVars, requestVars, threadVars, hostVars>>
  \/ \E o \in TokenOutcomes : TokenResponse(1, o) /\ UNCHANGED <<cacheVars, requestVars, threadVars, hostVars>>
  \/ TokenStoreExpiry(1) /\ UNCHANGED <<cacheVars, requestVars, threadVars, hostVars>>
  \/ TokenTick /\ UNCHANGED <<requestVars, tokenVars, threadVars, hostVars>>

SpecToken == InitToken /\ [][NextToken]_vars

\* two tasks of the event loop that call _get_access_token on one instance
SharedTokenOutcomes ==
  { TokenAnswer("json", 200, TRUE, Some(e)) : e \in ExpiresIns }
    \cup { TokenAnswer("json", 200, FALSE, None), TokenAnswer("status", 401, FALSE, None) }

InitShared == NewCache({CACHE_MAX_SIZE}) /\ NoRequest /\ NoTokens(1) /\ NoThreads /\ NoHost

NextShared ==
  \/ \E t \in Tasks : posts < MaxPosts /\ TokenCall(t, 1)
       /\ UNCHANGED <<cacheVars, requestVars, threadVars, hostVars>>
  \/ \E t \in Tasks : TokenCheck(t)
       /\ UNCHANGED <<cacheVars, requestVars, threadVars, hostVars>>
  \/ \E t \in Tasks, o \in SharedTokenOutcomes : TokenResponse(t, o)
       /\ UNCHANGED <<cacheVars, requestVars, threadVars, hostVars>>
  \/ \E t \in Tasks : TokenStoreExpiry(t)
       /\ UNCHANGED <<cacheVars, requestVars, threadVars, hostVars>>
  \/ TokenTick /\ UNCHANGED <<requestVars, tokenVars, threadVars, hostVars>>

SpecShared == InitShared /\ [][NextShared]_vars

\* two threads that call the operations of one cache, all at one instant of
\* the clock: an entry set with ttl 0 is expired, one set with ttl 1 is live
InitThreads == NewCache(ThreadSizes) /\ NoRequest /\ NoTokens(0) /\ NoThreads /\ NoHost

NextThreads ==
  \/ \E t \in Threads, op \in ThreadOps, key \in ThreadKeys, ttl \in ThreadTTLs :
       /\ ndone < MaxThreadOps
       /\ op \notin { "set" } => ttl = 0
       /\ op \in { "clear", "cleanup_expired", "stats", "reset_stats" } => key = <<"s", "a">>
       /\ ThreadCall(t, op, IF op = "delete_pattern" THEN SubSeq(key, 1, 1) ELSE key, ttl)
       /\ UNCHANGED <<requestVars, tokenVars, hostVars>>
  \/ \E t \in Threads : ThreadAcquire(t) /\ UNCHANGED <<requestVars, tokenVars, hostVars>>
  \/ \E t \in Threads : ThreadRead(t) /\ UNCHANGED <<requestVars, tokenVars, hostVars>>
  \/ \E t \in Threads : ThreadDelete(t) /\ UNCHANGED <<requestVars, tokenVars, hostVars>>
  \/ \E t \in Threads : ThreadStore(t) /\ UNCHANGED <<requestVars, tokenVars, hostVars>>
  \/ \E t \in Threads : ThreadRelease(t) /\ UNCHANGED <<requestVars, tokenVars, hostVars>>

SpecThreads == InitThreads /\ [][NextThreads]_vars

\* the answers of the token endpoint that the service is run against
ServiceTokenOutcomes ==
  { TokenAnswer("json", 200, TRUE, Some(3600)), TokenAnswer("json", 200, FALSE, None),
    TokenAnswer("status", 401, FALSE, None) }

\* two tasks of the event loop that call IntuneService.fetch_devices_by_email
InitService == NewCache({CACHE_MAX_SIZE}) /\ NoRequest /\ NoTokens(0) /\ NoThreads /\ NoHost

NextService ==
  \/ \E t \in Tasks, email \in Emails :
       hits + misses < MaxFetches /\ FetchDevicesByEmail(t, email) /\ UNCHANGED <<requestVars, threadVars, hostVars>>
  \/ \E t \in Tasks, o \in ServiceTokenOutcomes :
       TokenResponse(t, o) /\ UNCHANGED <<cacheVars, requestVars, threadVars, hostVars>>
  \/ \E t \in Tasks : TokenStoreExpiry(t) /\ UNCHANGED <<cacheVars, requestVars, threadVars, hostVars>>
  \/ \E t \in Tasks : FetchSend(t) /\ UNCHANGED <<cacheVars, requestVars, threadVars, hostVars>>
  \/ \E t \in Tasks, ok \in BOOLEAN : FetchDevices(t, ok) /\ UNCHANGED <<requestVars, threadVars, hostVars>>
  \/ TokenTick /\ UNCHANGED <<requestVars, tokenVars, threadVars, hostVars>>

SpecService == InitService /\ [][NextService]_vars

----------------------------------------------------------------------------
(***************************************************************************)
(* A cache of the size of the end-to-end scenario (10) and of twice that    *)
(* size, filled with fresh keys: the sizes at which len // 10 is 1 and 2.   *)
(***************************************************************************)
FillSizes == { 10, 20 }
\* set's default ttl_seconds
FillTTL == 300

FillKey(i) == <<"k", ToString(i)>>

InitFill == NewCache(FillSizes) /\ NoRequest /\ NoTokens(0) /\ NoThreads /\ NoHost

\* the keys are set in the order FillKey(1), FillKey(2), ...: the next one is new
FillNext == Len(cache) + evictions + 1

NextFill ==
  \/ call.n < MaxFillOps /\ Set(FillKey(FillNext), "v1", FillTTL, 0)
       /\ UNCHANGED <<requestVars, tokenVars, threadVars, hostVars>>
  \/ call.n < MaxFillOps /\ cache # <<>> /\ sets < FillNext
       /\ Set(cache[1].key, "v2", FillTTL, 0) /\ UNCHANGED <<requestVars, tokenVars, threadVars, hostVars>>
  \/ now < MaxFillClock /\ Tick /\ UNCHANGED <<requestVars, tokenVars, threadVars, hostVars>>

SpecFill == InitFill /\ [][NextFill]_vars

----------------------------------------------------------------------------
(***************************************************************************)
(* The cache and the callers' objects: set stores the object it is passed, *)
(* get returns the stored object, and the callers keep their references.   *)
(***************************************************************************)
MaxAccessOps == 4
MaxAccessClock == 2

AccessSizes == { 2 }

\* a caller changes an object it holds: one it passed to set, or one get
\* returned to it (list.append, a field assignment)
Mutate(v) ==
  /\ \/ call.op = "set" /\ call.value = v
     \/ call.op = "get" /\ ret = v
  /\ content' = [content EXCEPT ![v] = IF content[v] = "made" THEN "changed" ELSE "made"]

\* what a get of the entry gives its caller to read: the object, as it is now
Seen(e) == content[e.value]

InitAccess == NewCache(AccessSizes) /\ NoRequest /\ NoTokens(0) /\ NoThreads /\ NoHost

NextAccess ==
  \/ \E key \in Keys : call.n < MaxAccessOps /\ Get(key)
       /\ UNCHANGED <<requestVars, tokenVars, threadVars, hostVars>>
  \/ \E key \in Keys, value \in Values, d \in 0..1 :
       /\ call.n < MaxAccessOps /\ now + d <= MaxAccessClock
       /\ Set(key, value, FillTTL, d)
       /\ UNCHANGED <<requestVars, tokenVars, threadVars, hostVars>>
  \/ \E v \in Values : Mutate(v)
       /\ UNCHANGED <<cacheVars, requestVars, tokenVars, threadVars, lifeVars>>

SpecAccess == InitAccess /\ [][NextAccess]_vars

----------------------------------------------------------------------------
(***************************************************************************)
(* The application's startup and shutdown events and the periodic cleanup  *)
(* task, main.py.                                                          *)
(***************************************************************************)
MaxSweepOps == 2
MaxSweepSteps == 5

CACHE_ENABLED == TRUE
CACHE_CLEANUP_INTERVAL == 300

\* the clock of this part moves by half intervals
SweepStep == CACHE_CLEANUP_INTERVAL \div 2

\* startup_event: init_db, then create_task(cleanup_cache_periodically()),
\* whose first step is to sleep; the task object is not kept
Startup ==
  /\ phase = "created"
  /\ phase' = "running"
  /\ task' = IF CACHE_ENABLED THEN "sleeping" ELSE task
  /\ slept' = 0
  /\ UNCHANGED <<sweeps, cacheVars>>

\* time passes; a sleeping task is woken when its delay is over
Elapse ==
  /\ task = "sleeping" => slept < CACHE_CLEANUP_INTERVAL
  /\ now' = now + SweepStep
  /\ slept' = IF task = "sleeping" THEN slept + SweepStep ELSE slept
  /\ UNCHANGED <<phase, task, sweeps, cache, max_size, hits, misses, evictions, sets,
                 call, ret>>

\* one turn of cleanup_cache_periodically's loop: the sleep is over,
\* cleanup_expired is called, and the task sleeps again
SweeperWake ==
  /\ task = "sleeping"
  /\ slept >= CACHE_CLEANUP_INTERVAL
  /\ IF CACHE_ENABLED
     THEN CleanupExpired /\ sweeps' = sweeps + 1
     ELSE UNCHANGED <<sweeps, cacheVars>>
  /\ slept' = 0
  /\ UNCHANGED <<phase, task>>

\* shutdown_event up to its first await, close_db()
ShutdownBegin ==
  /\ phase = "running"
  /\ phase' = "closing"
  /\ UNCHANGED <<task, slept, sweeps, cacheVars>>

\* shutdown_event from there to its end: close_shared_client(), the log lines
ShutdownEnd ==
  /\ phase = "closing"
  /\ phase' = "stopped"
  /\ UNCHANGED <<task, slept, sweeps, cacheVars>>

InitSweeper ==
  NewCache({CACHE_MAX_SIZE}) /\ NoRequest /\ NoTokens(0) /\ NoThreads /\ NoHost

NextSweeper ==
  \/ Startup /\ UNCHANGED <<requestVars, tokenVars, threadVars, heapVars>>
  \/ now < MaxSweepSteps * SweepStep /\ Elapse
       /\ UNCHANGED <<requestVars, tokenVars, threadVars, heapVars>>
  \/ SweeperWake /\ UNCHANGED <<requestVars, tokenVars, threadVars, heapVars>>
  \/ ShutdownBegin /\ UNCHANGED <<requestVars, tokenVars, threadVars, heapVars>>
  \/ ShutdownEnd /\ UNCHANGED <<requestVars, tokenVars, threadVars, heapVars>>
  \/ \E key \in Keys, value \in Values :
       /\ phase \in { "running", "closing" } /\ sets < MaxSweepOps
       /\ Set(key, value, FillTTL, 0)
       /\ UNCHANGED <<requestVars, tokenVars, threadVars, hostVars>>

SpecSweeper == InitSweeper /\ [][NextSweeper]_vars

----------------------------------------------------------------------------
(***************************************************************************)
(* Properties of the cache.                                                 *)
(***************************************************************************)
\* a step that is the call of operation op
IsCall(op) == call'.n = call.n + 1 /\ call'.op = op

\* the entries of a dict, as a set
Entries(c) == { c[i] : i \in 1..Len(c) }

\* C1: in a cache with max_size >= 1 the number of entries never exceeds
\* max_size, whatever operations are interleaved, and every set of a new key
\* that would take the number of distinct stored keys beyond max_size records
\* at least one eviction.
C1_SizeNeverExceedsMax ==
  /\ [](max_size >= 1 => Len(cache) <= max_size)
  /\ [][(max_size >= 1 /\ IsCall("set") /\ ~Has(cache, call'.key)
          /\ Len(cache) + 1 > max_size)
        => evictions' >= evictions + 1]_vars

C1_Witness ==
  /\ max_size >= 1 /\ call.op = "set"
  /\ Len(cache) = max_size /\ evictions >= 1 /\ sets > max_size

\* C2: a set of a new key that finds the cache at capacity with n entries
\* evicts exactly max(1, n div 10) entries before the insert, these are entries
\* with the oldest creation times, the eviction counter grows by that number
\* and the new key is present afterwards.
C2_EvictsOldestTenth ==
  [][(IsCall("set") /\ ~Has(cache, call'.key) /\ Len(cache) >= max_size)
     => LET n == Len(cache)
            k == Max(1, n \div 10)
            gone == { e \in Entries(cache) : ~Has(cache', e.key) }
            stay == Entries(cache) \ gone
        IN /\ Cardinality(gone) = k
           /\ \A g \in gone, e \in stay : g.created <= e.created
           /\ evictions' = evictions + k
           /\ Has(cache', call'.key)
           /\ Len(cache') = n - k + 1]_vars

\* C2 for the caches the constructor is documented to accept (max_size >= 1).
C2_EvictsOldestTenthValidSize ==
  [][(max_size >= 1 /\ IsCall("set") /\ ~Has(cache, call'.key)
      /\ Len(cache) >= max_size)
     => LET n == Len(cache)
            k == Max(1, n \div 10)
            gone == { e \in Entries(cache) : ~Has(cache', e.key) }
            stay == Entries(cache) \ gone
        IN /\ Cardinality(gone) = k
           /\ \A g \in gone, e \in stay : g.created <= e.created
           /\ \A g \in gone, e \in stay :
                g.created = e.created => IndexOf(cache, g.key) < IndexOf(cache, e.key)
           /\ evictions' = evictions + k
           /\ Has(cache', call'.key)
           /\ Len(cache') = n - k + 1]_vars

\* the end-to-end scenario: max_size 10, ten distinct keys, then an eleventh
C2_ScenarioTen ==
  (max_size = 10 /\ sets = 11 /\ call.n = 11 /\ FillNext = 12)
    => /\ evictions = 1
       /\ ~Has(cache, FillKey(1))
       /\ KeysOf(cache) = { FillKey(i) : i \in 2..11 }

C2_ScenarioReached == max_size = 10 /\ sets = 11 /\ call.n = 11 /\ FillNext = 12

C2_TwoEvictedReached == max_size = 20 /\ evictions = 2 /\ sets = 21

\* C3: a get of a stored key at a time >= the entry's expiry returns None,
\* removes the entry and counts one miss and no hit.
C3_ExpiredNeverReturned ==
  [][\A key \in Keys :
       (IsCall("get") /\ call'.key = key /\ Has(cache, key)
        /\ now >= Lookup(cache, key).expiry)
       => /\ ret' = NoneVal
          /\ ret' # Lookup(cache, key).value
          /\ ~Has(cache', key)
          /\ misses' = misses + 1
          /\ hits' = hits]_vars

\* set(key, value, 1), the clock advancing by 1, get(key): the get found the
\* expired entry and removed it.
C3_Witness ==
  /\ call.op = "get" /\ call.n = 2 /\ sets = 1 /\ now >= 1
  /\ ret = NoneVal /\ misses = 1 /\ hits = 0 /\ cache = <<>>

\* C4: a get(key) that directly follows set(key, value, ttl) with ttl > 0, at a
\* time before the set's time + ttl, returns value.
C4_GetAfterSet ==
  [][(call.op = "set" /\ call.ttl > 0 /\ IsCall("get") /\ call'.key = call.key
      /\ call'.at < call.at + call.ttl)
     => /\ ret' = call.value
        /\ hits' = hits + 1]_vars

\* set, a set that evicts, then the get of the key just set
C4_Witness ==
  /\ call.op = "get" /\ call.n = 3 /\ sets = 2 /\ evictions = 1
  /\ hits = 1 /\ ret \in Values

----------------------------------------------------------------------------
(***************************************************************************)
(* Properties of the retried request.                                       *)
(***************************************************************************)
IsErrorResponse(o) == o.kind = "response" /\ o.status >= 400

IsTimeout(o) == o.kind = "error" /\ o.exc \in TimeoutErrors

\* connect-timeout, read-timeout, connection refused or reset
IsTransportFailure(o) == o.kind = "error" /\ o.exc \in TimeoutErrors \cup NetworkErrors

Ended == rpc \in { "returned", "raised" }

Cancelled == rpc = "cancelled"

\* C5: an attempt that received a 4xx/5xx response is the call's last attempt,
\* the response surfaces as an error carrying the remote status code, and only
\* connect-timeout, read-timeout and connection refused/reset failures are
\* followed by another attempt.
C5_ErrorResponseIsTerminal ==
  /\ \A i \in 1..Len(outcomes) :
       IsErrorResponse(outcomes[i]) => i = Len(outcomes) /\ rpc # "sleeping"
  /\ \A i \in 1..(Len(outcomes) - 1) : IsTransportFailure(outcomes[i])
  /\ (Ended /\ IsErrorResponse(outcomes[Len(outcomes)]) /\ surfaced # NoResult)
       => /\ surfaced.type = "ExternalServiceError"
          /\ surfaced.status = outcomes[Len(outcomes)].status

\* what does hold of a call that ends on a 4xx/5xx response: the error that
\* surfaces carries the status code of the last attempt's response
C5_LastStatusSurfaces ==
  (Ended /\ IsErrorResponse(outcomes[Len(outcomes)]) /\ surfaced # NoResult)
    => /\ surfaced.type = "ExternalServiceError"
       /\ surfaced.status = outcomes[Len(outcomes)].status
       /\ Len(outcomes) = MaxAttempts

\* C6: a call whose every attempt times out makes exactly MaxAttempts (3)
\* attempts and then raises the ServiceTimeoutError of the final attempt, which
\* is what the caller gets.
C6_TimeoutsUpToCeiling ==
  /\ Len(outcomes) <= MaxAttempts
  /\ ((\A i \in 1..Len(outcomes) : IsTimeout(outcomes[i])) /\ outcomes # <<>>)
       => /\ Len(outcomes) < MaxAttempts
               => rpc \in { "sleeping", "sending", "cancelled" }
          /\ Len(outcomes) = MaxAttempts
               => /\ rpc = "raised"
                  /\ result.type = "ServiceTimeoutError"
                  /\ result.attempt = MaxAttempts
                  /\ result.cause = outcomes[MaxAttempts].exc
                  /\ surfaced \in { NoResult, result }

C6_Witness ==
  /\ rpc = "raised" /\ Len(outcomes) = 3
  /\ \A i \in 1..3 : IsTimeout(outcomes[i])
  /\ outcomes[2].exc = "ConnectTimeout" /\ outcomes[3].exc = "ReadTimeout"
  /\ surfaced.type = "ServiceTimeoutError"

\* C7: when the first k < 3 attempts fail with a retryable transport failure and
\* attempt k+1 succeeds, the call returns the response of attempt k+1 after
\* exactly k retries, and no attempt follows the success; fewer than 3 such
\* failures never end the call.
C7_SuccessAfterRetries ==
  /\ [](/\ (outcomes # <<>> /\ IsOk(outcomes[Len(outcomes)]))
            => /\ rpc = "returned"
               /\ result = Returned(outcomes[Len(outcomes)], Len(outcomes))
               /\ Len(sleeps) = Len(outcomes) - 1
               /\ attempt_number = Len(outcomes)
               /\ surfaced \in { NoResult, result }
        /\ (rpc = "raised" /\ \A i \in 1..Len(outcomes) : IsTransportFailure(outcomes[i]))
            => Len(outcomes) = MaxAttempts)
  /\ [][rpc = "returned" => (rpc' = "returned" /\ outcomes' = outcomes /\ result' = result)]_vars

C7_Witness ==
  /\ rpc = "returned" /\ Len(outcomes) = 3 /\ Len(sleeps) = 2
  /\ outcomes[1].exc = "ConnectTimeout" /\ outcomes[2].exc = "ConnectTimeout"
  /\ surfaced.type = "Response"

----------------------------------------------------------------------------
(***************************************************************************)
(* Properties of the token handling.                                       *)
(***************************************************************************)
\* the last completed acquisition of client c yielded a token
HoldsToken(c) == acquired[c] # None /\ acquired[c][1].token # None

\* the instant from which the token of c's last acquisition is no longer used
ReuseLimit(c) == acquired[c][1].at + acquired[c][1].expires_in - SafetyMargin

\* the token endpoint's answer is no usable token
IsFailedAcquisition(o) == o.kind # "json" \/ ~o.has_token

\* C8: for a token acquired at time t with issuer-reported lifetime e, every
\* _get_access_token at a time < t + e - 300 returns that same token without
\* a POST to the token endpoint, and a call at a time >= t + e - 300 POSTs
\* again; t is the time of the latest acquisition, so the new expiry counts
\* from the new acquisition and not from the previous expiry.
C8_ReuseUntilMargin ==
  [][(tpc[1] = "check" /\ tpc'[1] # "check" /\ HoldsToken(1)) =>
       IF now < ReuseLimit(1)
       THEN /\ posts' = posts
            /\ tpc'[1] = "got"
            /\ tres'[1] = TokenResult("token", acquired[1][1].token, 0)
       ELSE /\ posts' = posts + 1
            /\ tpc'[1] = "posting"]_vars

\* C8: the token of a second acquisition, made at 3300 s when the first
\* token's 3300 s were over, is returned from the stored state at 3301 s
C8_Witness ==
  /\ tpc[1] = "got"
  /\ token_data[1] = NoAnswer
  /\ posts = 2
  /\ HoldsToken(1)
  /\ acquired[1][1].at = 3300
  /\ now = 3301
  /\ tres[1] = TokenResult("token", Some(2), 0)

\* C9: a live token is reused across business operations: while the token
\* that some operation acquired is still live, no fetch_devices_by_email
\* POSTs to the token endpoint.
C9_LiveTokenReusedAcrossOperations ==
  [][(\E c \in Clients : HoldsToken(c) /\ now < ReuseLimit(c)) => posts' = posts]_vars

\* C10: an acquisition that fails in any way (transport error, non-2xx
\* status, undecodable body, body without a token) ends the call with an
\* authentication error, returns no token and leaves the stored access
\* token and expiry as they were.
C10_FailedAcquisitionStoresNothing ==
  [][(tpc[1] = "posting" /\ tpc'[1] # "posting" /\ IsFailedAcquisition(token_data'[1])) =>
       /\ tpc'[1] = "got"
       /\ tres'[1].type = "ExternalServiceError"
       /\ access_token' = access_token
       /\ token_expiry' = token_expiry]_vars

\* C10, for the failures the code handles: a transport error or a non-2xx
\* status ends the call with ExternalServiceError and stores nothing
C10_HttpFailureStoresNothing ==
  [][(tpc[1] = "posting" /\ tpc'[1] # "posting"
        /\ token_data'[1].kind \in { "transport", "status" }) =>
       /\ tpc'[1] = "got"
       /\ tres'[1].type = "ExternalServiceError"
       /\ access_token' = access_token
       /\ token_expiry' = token_expiry]_vars

\* the entry stored under key, as a set: empty when the key is absent
EntryOf(c, key) == { e \in Entries(c) : e.key = key }

\* s occurs in k as a run of consecutive characters
IsSubstring(s, k) == \E i \in 0..Len(k), j \in 0..Len(k) : i <= j /\ SubSeq(k, i + 1, j) = s

\* the four counters
Counters == <<hits, misses, evictions, sets>>

\* C12: no operation ever runs on a cache whose capacity is below 1, since
\* the constructor rejects such a capacity.
C12_NoOperationBelowCapacityOne == call.op # "init" => max_size >= 1

\* C13: delete_pattern(s) removes exactly the entries whose key contains s as
\* a literal substring, returns their number, and leaves every other entry
\* (value, expiry, creation time) and the dict order as they were.
C13_DeletePatternExact ==
  [][IsCall("delete_pattern") =>
       LET gone == { e \in Entries(cache) : IsSubstring(call'.key, e.key) }
       IN /\ Entries(cache') = Entries(cache) \ gone
          /\ Len(cache') = Len(cache) - Cardinality(gone)
          /\ ret' = Cardinality(gone)]_vars

\* C13: delete_pattern("a") on the keys "sa" and "sb" removed "sa" alone
C13_Witness ==
  /\ call.op = "delete_pattern" /\ call.key = <<"a">> /\ call.n = 3 /\ sets = 2
  /\ ret = 1 /\ KeysOf(cache) = { <<"s", "b">> }

\* C14: cleanup_expired removes exactly the entries with expiry <= now,
\* returns their number and leaves every other entry in place, so that no
\* entry with expiry <= now remains.
C14_SweepExact ==
  [][IsCall("cleanup_expired") =>
       LET gone == { e \in Entries(cache) : e.expiry <= now }
       IN /\ Entries(cache') = Entries(cache) \ gone
          /\ Len(cache') = Len(cache) - Cardinality(gone)
          /\ ret' = Cardinality(gone)
          /\ \A e \in Entries(cache') : e.expiry > now']_vars

\* C14: a sweep at the expiry instant of one of two entries removed that one
C14_Witness ==
  /\ call.op = "cleanup_expired" /\ call.n = 3 /\ sets = 2 /\ ret = 1
  /\ Len(cache) = 1 /\ cache[1].expiry > now

\* C15: reset_stats sets the four counters to zero and leaves the entries
\* as they were, so that a get of a live key right after it returns the value.
C15_ResetKeepsEntries ==
  /\ [][IsCall("reset_stats") => Counters' = <<0, 0, 0, 0>> /\ cache' = cache]_vars
  /\ [][\A key \in Keys :
          (call.op = "reset_stats" /\ IsCall("get") /\ call'.key = key
           /\ Has(cache, key) /\ now < Lookup(cache, key).expiry)
          => ret' = Lookup(cache, key).value /\ hits' = 1]_vars

\* C15: set, reset_stats, then the get of the key returned its value
C15_Witness ==
  /\ call.op = "get" /\ call.prev = "reset_stats" /\ call.n = 3
  /\ ret \in Values /\ hits = 1 /\ sets = 0 /\ Len(cache) = 1

\* C16: every get increments exactly one of hits (live entry) and misses
\* (absent or expired entry), every set increments sets by one, no other
\* operation but reset_stats changes these counters, stats reports
\* total_requests = hits + misses, and reset_stats, a get miss and a set
\* give hits 0, misses 1, sets 1.
C16_CountersAccount ==
  /\ [][\A key \in Keys :
          (IsCall("get") /\ call'.key = key) =>
            /\ sets' = sets
            /\ IF Has(cache, key) /\ now < Lookup(cache, key).expiry
               THEN hits' = hits + 1 /\ misses' = misses
               ELSE hits' = hits /\ misses' = misses + 1]_vars
  /\ [][IsCall("set") => sets' = sets + 1 /\ hits' = hits /\ misses' = misses]_vars
  /\ [][(call'.op \notin { "get", "set", "reset_stats" })
          => hits' = hits /\ misses' = misses /\ sets' = sets]_vars
  /\ [][(IsCall("stats") /\ max_size >= 1) =>
          /\ ret'.total_requests = hits + misses
          /\ ret'.hits = hits /\ ret'.misses = misses /\ ret'.total_sets = sets]_vars
  /\ [][(call.op = "get" /\ call.prev = "reset_stats" /\ ret = NoneVal /\ IsCall("set"))
          => hits' = 0 /\ misses' = 1 /\ sets' = 1]_vars

\* C16: reset_stats, a get miss, a set
C16_Witness ==
  /\ call.op = "set" /\ call.prev = "get" /\ call.n = 3
  /\ hits = 0 /\ misses = 1 /\ sets = 1 /\ evictions = 0

\* C17: delete(key) returns whether key was stored, leaves key absent and
\* changes no other entry and no counter; for a missing key it returns false
\* and changes nothing.
C17_DeleteFrame ==
  [][\A key \in Keys :
       (IsCall("delete") /\ call'.key = key) =>
         /\ ret' = Has(cache, key)
         /\ ~Has(cache', key)
         /\ Entries(cache') = Entries(cache) \ EntryOf(cache, key)
         /\ Counters' = Counters
         /\ ~Has(cache, key) => cache' = cache]_vars

\* C17: the one stored key was deleted; then a delete found its key missing
C17_Witness ==
  /\ call.op = "delete" /\ call.prev = "delete" /\ call.n = 3 /\ ret = FALSE
  /\ sets = 1 /\ cache = <<>>

\* C18: after clear the cache is empty, and a clear that directly follows a
\* clear finds no entry to remove and leaves the cache and the counters as
\* the first one left them.
C18_ClearIdempotent ==
  /\ [][IsCall("clear") =>
          cache' = <<>> /\ ret' = NoneVal /\ Counters' = Counters]_vars
  /\ [][(call.op = "clear" /\ IsCall("clear")) =>
          /\ Len(cache) = 0
          /\ <<cache, max_size, Counters, now, ret>>' = <<cache, max_size, Counters, now, ret>>]_vars

\* C18: a set, a clear and a second clear
C18_Witness ==
  /\ call.op = "clear" /\ call.prev = "clear" /\ call.n = 3 /\ sets = 1
  /\ cache = <<>>

\* C19: set with ttl <= 0 raises nothing and stores an entry whose expiry is
\* not after the set's clock; a get of a key whose entry is at or past its
\* expiry returns None and counts a miss, and the clock never goes back, so
\* every later get, one at the set's own instant included, misses.
C19_NonPositiveTtlIsExpired ==
  /\ []((call.op = "set" /\ call.ttl <= 0) =>
          /\ ret = NoneVal
          /\ Has(cache, call.key)
          /\ Lookup(cache, call.key).expiry <= call.at)
  /\ [][\A key \in Keys :
          (IsCall("get") /\ call'.key = key /\ Has(cache, key)
           /\ Lookup(cache, key).expiry <= now)
          => ret' = NoneVal /\ misses' = misses + 1 /\ hits' = hits]_vars
  /\ [][now' >= now]_vars
  /\ [][(call.op = "set" /\ call.ttl <= 0 /\ IsCall("get") /\ call'.key = call.key)
          => ret' = NoneVal /\ misses' = misses + 1 /\ hits' = hits]_vars

\* C19: set(key, value, 0) and, at the same instant, get(key): a miss
C19_Witness ==
  /\ call.op = "get" /\ call.prev = "set" /\ call.n = 2 /\ now = 0
  /\ sets = 1 /\ ret = NoneVal /\ misses = 1 /\ hits = 0 /\ cache = <<>>

\* every body that is past its reading has read the state that the completed
\* operations give when run one after another, and when no thread holds the
\* lock the dict and the counters are that state
Linearized ==
  /\ \A t \in Threads : thr[t].pc \in { "delete", "store" } => loc[t] = lin
  /\ lock = 0 => Shared = lin

\* C20: every cache operation is atomic with respect to every other: under
\* any interleaving of the threads the dict and the counters are those of the
\* operations run one after another, no body reads a state another body has
\* half written, and the size never exceeds max_size.
C20_OperationsAtomic == Linearized /\ Len(cache) <= max_size

\* C20 for the caches of capacity >= 1.
C20_OperationsAtomicValidSize == Linearized /\ (max_size >= 1 => Len(cache) <= max_size)

\* two sets by two threads, the second of which evicted, are both counted
C20_TwoThreadsReached ==
  /\ lock = 0 /\ max_size = 1 /\ sets = 2 /\ evictions = 1 /\ Len(cache) = 1
  /\ thr[1].op = "set" /\ thr[2].op = "set"

\* the operations of the one-caller model are Apply on the state they find
C20_ApplyIsTheOperation ==
  [][call'.n = call.n + 1 =>
       Shared' = Apply(call'.op, call'.key, call'.value, call'.ttl, Shared, now, now' - now)]_vars

----------------------------------------------------------------------------
(***************************************************************************)
(* Properties of the error handling middleware.                            *)
(***************************************************************************)
\* the outbound call ended in an error
IsTerminalError(e) == e # NoResult /\ e.type # "Response"

\* C11: every terminal error of an outbound call leaves the error handling
\* middleware as a structured failure body with a message and the request's
\* correlation identifier, and never as a raised exception.
C11_ErrorsLeaveAsStructuredBody ==
  (IsTerminalError(surfaced) /\ sent # NoSent) =>
    /\ sent.kind = "JSONResponse"
    /\ sent.success = FALSE
    /\ sent.request_id \in RequestIds

\* C11, for the errors dispatch has an except clause for: an
\* ExternalServiceError leaves as a structured body with its status
C11_ExternalServiceErrorIsStructured ==
  (surfaced.type = "ExternalServiceError" /\ sent # NoSent) =>
    /\ sent.kind = "JSONResponse"
    /\ sent.status = surfaced.status
    /\ sent.request_id \in RequestIds

----------------------------------------------------------------------------
(***************************************************************************)
(* Properties of cancellation and of the call's termination.               *)
(***************************************************************************)
\* the call was cancelled at its latest await of the request
CancelledInAttempt ==
  outcomes # <<>> /\ outcomes[Len(outcomes)] = Failure("CancelledError")

\* C21: a call cancelled while it waits for the request or for the retry
\* delay makes no further attempt and sleeps no further delay, the
\* cancellation is what it ends with, and the httpx client it held is closed
\* afterwards.
C21_CancelledCallStopsAndCloses ==
  /\ [][(CancelledInAttempt \/ Cancelled) =>
          /\ Cancelled'
          /\ outcomes' = outcomes
          /\ sleeps' = sleeps
          /\ attempt_number' = attempt_number
          /\ result' = result]_vars
  /\ [](Cancelled => result.type = "CancelledError")
  /\ Cancelled ~> (client = "closed")

\* C21: cancelled in the retry delay after one failed attempt, and closed
C21_Witness ==
  /\ Cancelled /\ Len(outcomes) = 1 /\ Len(sleeps) = 1 /\ attempt_number = 1
  /\ IsTimeout(outcomes[1]) /\ client = "closed"

\* C21: cancelled while the second attempt waited for the response, and closed
C21_CancelledInAttemptReached ==
  /\ Cancelled /\ CancelledInAttempt /\ Len(outcomes) = 2 /\ client = "closed"

----------------------------------------------------------------------------
(***************************************************************************)
(* Properties of the periodic cleanup task.                                *)
(***************************************************************************)
\* C22: the background task calls cleanup_expired once per
\* CACHE_CLEANUP_INTERVAL seconds while the process runs, and it is cancelled
\* at shutdown: once the shutdown event has completed the task has ended and
\* no further sweep is made.
C22_SweeperStopsAtShutdown ==
  /\ [][sweeps' # sweeps =>
          /\ sweeps' = sweeps + 1
          /\ slept = CACHE_CLEANUP_INTERVAL]_vars
  /\ [](phase = "stopped" => task \in { "none", "ended" })
  /\ [][phase = "stopped" => sweeps' = sweeps]_vars

\* what of C22 holds: while the task lives, each sweep comes exactly one
\* interval after the task began to sleep, and it removes the expired entries
C22_SweepsOncePerInterval ==
  [][sweeps' # sweeps =>
      /\ sweeps' = sweeps + 1
      /\ slept = CACHE_CLEANUP_INTERVAL /\ slept' = 0
      /\ task = "sleeping" /\ task' = "sleeping"
      /\ \A i \in 1..Len(cache') : ~Expired(cache'[i], now)]_vars

\* a sweep made after the shutdown event has completed
C22_SweepAfterShutdownReached ==
  phase = "stopped" /\ sweeps = 1 /\ call.op = "cleanup_expired" /\ ret = 1

----------------------------------------------------------------------------
(***************************************************************************)
(* Properties of a business operation whose token acquisition fails, and   *)
(* of the connection pools.                                                *)
(***************************************************************************)
\* task t's POST to the token endpoint is answered in this step
Answered(t) == tpc[t] = "posting" /\ tpc'[t] # "posting"

\* C23: when the token acquisition of a call fails, the call surfaces an
\* authentication error at once: the token endpoint is tried exactly once
\* (a POST is made only as the call starts, never again within it) and no
\* request is sent to the target endpoint.
C23_FailedAcquisitionSurfacesAtOnce ==
  /\ [][\A t \in Tasks :
          (Answered(t) /\ IsFailedAcquisition(token_data'[t])) =>
             /\ tpc'[t] = "got"
             /\ tres'[t].type = "ExternalServiceError"]_vars
  /\ [][\A t \in Tasks :
          (tpc'[t] = "fetching" /\ tpc[t] # "fetching") =>
             ~IsFailedAcquisition(token_data[t])]_vars
  /\ [][posts' # posts =>
          /\ posts' = posts + 1
          /\ \E t \in Tasks : tpc[t] \in { "idle", "done" } /\ tpc'[t] = "posting"]_vars

\* what of C23 holds: a token request answered with an error status ends the
\* call with that ExternalServiceError, without another POST and without a GET
C23_StatusFailureSurfacesAtOnce ==
  /\ [][\A t \in Tasks :
          (Answered(t) /\ token_data'[t].kind = "status") =>
             /\ tpc'[t] = "got"
             /\ tres'[t] = TokenResult("ExternalServiceError", None, token_data'[t].status)
             /\ pools' = pools - 1]_vars
  /\ [][\A t \in Tasks :
          (tpc[t] = "got" /\ tpc'[t] # "got" /\ token_data[t].kind = "status") =>
             /\ tpc'[t] = "done"
             /\ tres'[t] = tres[t]
             /\ gets' = gets /\ posts' = posts /\ cache' = cache]_vars
  /\ [][posts' # posts =>
          /\ posts' = posts + 1
          /\ \E t \in Tasks : tpc[t] \in { "idle", "done" } /\ tpc'[t] = "posting"]_vars

\* a call whose token request was refused has ended with the error: one POST,
\* no GET
C23_RefusedReached ==
  /\ tpc[1] = "done" /\ tres[1] = TokenResult("ExternalServiceError", None, 401)
  /\ posts = 1 /\ gets = 0 /\ pools = 0

\* every acquisition opens an httpx.AsyncClient for its POST, and every
\* entered IntuneClient one for its GET
PoolsOpened == posts + gets

\* C28: all outbound calls go through one process-wide connection pool: at
\* any time at most one pool is open, and the calls create no pools of their
\* own, so that no more than one pool is ever opened.
C28_OneSharedPool ==
  /\ pools <= 1
  /\ PoolsOpened <= 1

\* every pool a call opens it closes: between calls none is open
C28_PoolsAreClosed ==
  /\ pools \in 0..Cardinality(Tasks)
  /\ pools = Cardinality({ t \in Tasks : tpc[t] \in { "posting", "closing", "fetching" } })

\* two calls at once, each with a pool of its own
C28_TwoPoolsReached == pools = 2 /\ tpc[1] = "fetching" /\ tpc[2] = "posting"

----------------------------------------------------------------------------
(***************************************************************************)
(* Properties of the cache's entries: ownership, eviction order, overwrite. *)
(***************************************************************************)
\* this step is a call of op
Calls(op) == call'.n = call.n + 1 /\ call'.op = op

\* C24: the cache exclusively owns its entries: when a caller changes an
\* object it received from get or passed to set, what a later get returns for
\* any key is as it was; only cache operations change it.
C24_CacheOwnsItsEntries ==
  [][cache' = cache => \A i \in 1..Len(cache) : Seen(cache[i])' = Seen(cache[i])]_vars

\* the object stored under a key was changed by its caller after the set
C24_ChangedEntryReached ==
  /\ cache # <<>> /\ Seen(cache[1]) = "changed"
  /\ call.op = "get" /\ ret = cache[1].value /\ call.key = cache[1].key

C25_ReadEntryEvictedReached ==
  /\ call.op = "set" /\ call.prev = "get" /\ call.n = 4 /\ hits = 1 /\ evictions = 1
  /\ Len(cache) = 2 /\ cache[1].created = 1 /\ cache[2].created = 1

\* C30: a set on a key that is present never evicts, also at capacity: the
\* size and the eviction counter stay, every other entry stays as it was and
\* where it was, and the key's value, expiry and creation time are replaced,
\* so that no entry is younger than the overwritten one.
C30_OverwriteNeverEvicts ==
  [][(Calls("set") /\ Has(cache, call'.key)) =>
       /\ Len(cache') = Len(cache)
       /\ evictions' = evictions
       /\ \A i \in 1..Len(cache) :
            IF cache[i].key = call'.key
            THEN cache'[i] = [key |-> call'.key, value |-> call'.value,
                              expiry |-> now + call'.ttl, created |-> now']
            ELSE cache'[i] = cache[i]
       /\ \A i \in 1..Len(cache') : cache'[i].created <= Lookup(cache', call'.key).created
       /\ SortedItems(cache')[Len(cache')].created = now']_vars

\* C30: the older of two entries of a full cache was overwritten at a later
\* time and is now the younger one
C30_Witness ==
  /\ call.op = "set" /\ sets = 3 /\ evictions = 0
  /\ Len(cache) = max_size /\ Len(cache) = 2
  /\ cache[1].key = call.key /\ cache[1].created > cache[2].created
  /\ cache[1].expiry > cache[2].expiry
  /\ SortedItems(cache)[2].key = call.key

----------------------------------------------------------------------------
(***************************************************************************)
(* Properties of concurrent token acquisitions on one client instance.     *)
(***************************************************************************)
\* C26: the token state is replaced as a whole: at every point where a task
\* can observe it, a stored access token and a stored expiry come from one
\* and the same acquisition, also when two refreshes overlap.
C26_TokenStateReplacedWhole ==
  \A c \in Clients :
    (access_token[c] # None /\ token_expiry[c] # None) =>
       /\ acquired[c] # None
       /\ acquired[c][1].by = access_token[c][1]

\* no acquisition is under way, and the stored token is that of the first
\* POST while the stored expiry is that of the second
C26_MixedPairRetainedReached ==
  /\ tpc[1] = "got" /\ tpc[2] = "got" /\ posts = 2
  /\ access_token[1] = Some(1) /\ acquired[1][1].by = 2
  /\ token_expiry[1] = Some(1) /\ now = 0

\* task t's check of the stored token is made in this step
Checks(t) == tpc[t] = "check" /\ tpc'[t] # "check"

\* task t's acquisition completes in this step
Stores(t) == tpc[t] = "closing" /\ tpc'[t] = "got"

\* C27: token acquisition is not single-flight: a caller that finds no live
\* token POSTs to the token endpoint whether or not another caller's
\* acquisition on the same instance is under way, so two concurrent callers
\* both POST; and each completed acquisition returns the stored token, which
\* is live when it is there.
C27_NotSingleFlight ==
  /\ [][\A t \in Tasks :
          Checks(t) =>
            IF TokenValid(tcl[t])
            THEN tpc'[t] = "got" /\ posts' = posts
            ELSE tpc'[t] = "posting" /\ posts' = posts + 1]_vars
  /\ [][\A t \in Tasks :
          Stores(t) =>
            /\ tres'[t] = TokenResult("token", access_token[tcl[t]], 0)
            /\ access_token[tcl[t]] # None => TokenValid(tcl[t])']_vars

\* C27: both callers found no token and POSTed while the other's acquisition
\* was under way, and both have returned a token
C27_Witness ==
  /\ posts = 2 /\ tacq[1] = 1 /\ tacq[2] = 2
  /\ tpc[1] = "got" /\ tpc[2] = "got"
  /\ access_token[1] = Some(1)
  /\ tres[1].type = "token" /\ tres[1].token # None
  /\ tres[2].type = "token" /\ tres[2].token # None
  /\ TokenValid(1)

\* two acquisitions under way at once
C27_BothPostingReached == tpc[1] = "posting" /\ tpc[2] = "posting" /\ posts = 2

----------------------------------------------------------------------------
(***************************************************************************)
(* Termination of a call.                                                  *)
(***************************************************************************)
\* the call has returned a response or raised its last exception
Terminal == rpc \in { "returned", "raised", "cancelled" }

\* C29: every call eventually succeeds or fails for good, both are absorbing,
\* and a failed attempt leads to another attempt only while fewer than
\* MaxAttempts attempts have been made; the failure of attempt MaxAttempts
\* ends the call.
C29_CallTerminates ==
  /\ [](rpc \in { "sending", "sleeping" } => <>Terminal)
  /\ [][Terminal =>
          /\ rpc' = rpc /\ result' = result
          /\ outcomes' = outcomes /\ sleeps' = sleeps
          /\ attempt_number' = attempt_number]_vars
  /\ [][(rpc = "sleeping" /\ rpc' = "sending") =>
          /\ attempt_number < MaxAttempts
          /\ attempt_number' = attempt_number + 1]_vars
  /\ [][(rpc = "sending" /\ rpc' \notin { "sending", "returned", "cancelled" }) =>
          IF attempt_number < MaxAttempts
          THEN rpc' = "sleeping"
          ELSE rpc' = "raised" /\ Len(outcomes') = MaxAttempts]_vars
  /\ [](rpc = "returned" => IsOk(outcomes[Len(outcomes)]))

\* C29: the third attempt failed as the two before it, and the call has
\* raised that failure
C29_Witness ==
  /\ rpc = "raised" /\ attempt_number = MaxAttempts /\ Len(sleeps) = MaxAttempts - 1
  /\ \A i \in 1..Len(outcomes) : outcomes[i] = Failure("ConnectError")
  /\ result.type = "ServiceConnectionError"

====
